---- MODULE Spec2Model ----
(***************************************************************************)
(* Luna's Adventure: the physics and collision core.                       *)
(*                                                                         *)
(*   PhysicsEngine  (server/services/physicsEngine.js)                     *)
(*   Platform       (client/scripts/entities/platform.js)                  *)
(*   Physics, Game  (client/scripts/physics.js, client/scripts/game.js)    *)
(*                                                                         *)
(* Five specifications share the module:                                   *)
(*   SpecResolve   one checkCollision / resolveCollision call on a pair,   *)
(*   Spec          PhysicsEngine.update ticks over an entity list,         *)
(*   SpecForce     the force API called between update ticks,              *)
(*   SpecPlatform  the Platform object driven through its methods,         *)
(*   SpecGame      the client Game frame over a player and its platforms.  *)
(***************************************************************************)
EXTENDS Integers, Sequences, FiniteSets, TLC

\* SpecResolve: the two entities of a narrow-phase call, as passed (rA0, rB0)
\* and as they are now (rA, rB), the collision record, the record of the call
\* with the arguments swapped (rMirror), the events emitted (rEvents), and the
\* caller's position.
VARIABLES rA, rB, rA0, rB0, rCollision, rMirror, rEvents, rPc
\* Spec: the entity list, the spatial hash, the position in update, and what
\* the callers of the engine observe.
VARIABLES entities, spatialHash, pc, idx, candidates, cidx, events,
          ticks, calls, lastCall, jumpResult

\* SpecPlatform: a platform, the player its caller passes to it, the updates
\* so far while each took one second (pSteady), the latest call (pOp), the
\* deltaTime of the latest update (pDelta), the platform before the latest
\* call (pFrom) and what the calls returned (pResult, pBox).
VARIABLES platform, rider, pSteady, pOp, pDelta, pFrom, pResult, pBox
\* SpecGame: the local player, the platforms of the level, the lives, the
\* running flag, the frames so far, the player before the latest frame and
\* the collisions its platform checks reported; the paused flag, whether
\* animationFrameId holds the id of a requested frame that has not run yet
\* (FALSE stands for null), and the number of requested frames whose id the
\* field no longer holds (orphanFrames).
VARIABLES localPlayer, platforms, playerLives, isRunning, frames, before, contacts,
          isPaused, animationFrameId, orphanFrames

varsResolve == <<rA, rB, rA0, rB0, rCollision, rMirror, rEvents, rPc>>
varsEngine == <<entities, spatialHash, pc, idx, candidates, cidx, events,
                ticks, calls, lastCall, jumpResult>>
varsPlatform == <<platform, rider, pSteady, pOp, pDelta, pFrom, pResult, pBox>>
varsGame == <<localPlayer, platforms, playerLives, isRunning, frames, before, contacts,
              isPaused, animationFrameId, orphanFrames>>
vars == <<varsResolve, varsEngine, varsPlatform, varsGame>>

\* What a step of one specification leaves alone: the state of the others.
ResolveOnly == UNCHANGED <<varsEngine, varsPlatform, varsGame>>
EngineOnly == UNCHANGED <<varsResolve, varsPlatform, varsGame>>
PlatformOnly == UNCHANGED <<varsResolve, varsEngine, varsGame>>
GameOnly == UNCHANGED <<varsResolve, varsEngine, varsPlatform>>

(***************************************************************************)
(* JavaScript numbers.  Every Number of the program is an IEEE-754 binary  *)
(* float rounded to nearest, ties to even.  The model keeps that           *)
(* arithmetic and scales the format down: a number is an integer count of  *)
(* 1/Units, and every result is rounded to MantissaBits significant bits   *)
(* (53 in the program).  NaN is a value of its own: it is what 0/0 and     *)
(* arithmetic on undefined give, it propagates through arithmetic and      *)
(* every comparison with it is false.                                      *)
(***************************************************************************)
MantissaBits == 14
FracBits == 3

Units == 2 ^ FracBits
TwoP == 2 ^ MantissaBits
NaN == 0 - 2 ^ 30
Undefined == NaN - 1

IsNum(x) == x # NaN /\ x # Undefined

Abs(n) == IF n < 0 THEN 0 - n ELSE n
Sign(n) == IF n < 0 THEN 0 - 1 ELSE 1

\* Spacing of the representable numbers around a/q: the least power of two g
\* with a/q < g * 2^MantissaBits.
RECURSIVE Granule(_, _, _)
Granule(a, q, g) == IF a < q * g * TwoP THEN g ELSE Granule(a, q, 2 * g)

\* a/d rounded to the nearest integer, ties to the even one.
RoundHalfEven(a, d) ==
  LET f == a \div d
      r == a % d
  IN  IF 2 * r < d THEN f
      ELSE IF 2 * r > d THEN f + 1
      ELSE IF f % 2 = 0 THEN f ELSE f + 1

\* The rational p/q (q > 0), in units, rounded to a representable number.
RoundQ(p, q) ==
  LET a == Abs(p)
      g == Granule(a, q, 1)
  IN  Sign(p) * g * RoundHalfEven(a, q * g)

FAdd(x, y) == IF IsNum(x) /\ IsNum(y) THEN RoundQ(x + y, 1) ELSE NaN
FSub(x, y) == IF IsNum(x) /\ IsNum(y) THEN RoundQ(x - y, 1) ELSE NaN
FMul(x, y) == IF IsNum(x) /\ IsNum(y) THEN RoundQ(x * y, Units) ELSE NaN
\* x / y; the model divides by zero only as 0/0.
FDiv(x, y) ==
  IF IsNum(x) /\ IsNum(y) /\ y # 0 THEN RoundQ(x * Units * Sign(y), Abs(y)) ELSE NaN
FNeg(x) == IF IsNum(x) THEN 0 - x ELSE NaN
FAbs(x) == IF IsNum(x) THEN Abs(x) ELSE NaN
FMin(x, y) == IF IsNum(x) /\ IsNum(y) THEN (IF x < y THEN x ELSE y) ELSE NaN

FLt(x, y) == IsNum(x) /\ IsNum(y) /\ x < y
FGt(x, y) == IsNum(x) /\ IsNum(y) /\ x > y
FLe(x, y) == IsNum(x) /\ IsNum(y) /\ x <= y
FGe(x, y) == IsNum(x) /\ IsNum(y) /\ x >= y

\* n world units, n/2 and n/4 world units, as numbers of the model.
W(n) == n * Units
Half(n) == (n * Units) \div 2
Quarter(n) == (n * Units) \div 4
Eighth(n) == (n * Units) \div 8

(***************************************************************************)
(* Entities.  An entity is a record: id, type, x, y, width, height, the    *)
(* platform property oneWay, and the fields of its physics component       *)
(* (hasPhysics says whether entity.physics exists).  collidingWith is the  *)
(* ordered list of [id, type, side]; worldBounds is NoBounds (null) or a   *)
(* record [minX, maxX, minY, maxY] whose fields may be Undefined.          *)
(***************************************************************************)
NoBounds == <<>>
NoCollision == [side |-> "none"]
Sides == {"top", "bottom", "left", "right"}

\* PhysicsEngine constructor defaults.
gravity == Half(1)
friction == FDiv(W(8), W(10))
terminalVelocity == W(12)
jumpForce == W(0 - 11)
spatialHashCellSize == W(100)

\* createPhysicsComponent(entityConfig) merged into the entity it is made for.
createPhysicsComponent(cfg) ==
  [ id |-> cfg.id, type |-> cfg.type, x |-> cfg.x, y |-> cfg.y,
    width |-> cfg.width, height |-> cfg.height, oneWay |-> cfg.oneWay,
    hasPhysics |-> TRUE,
    velocityX |-> 0, velocityY |-> 0,
    previousX |-> cfg.x, previousY |-> cfg.y,
    isStatic |-> cfg.isStatic,
    hasGravity |-> cfg.hasGravity,
    hasFriction |-> cfg.hasFriction,
    mass |-> IF cfg.mass = 0 \/ ~IsNum(cfg.mass) THEN W(1) ELSE cfg.mass,
    bounciness |-> IF IsNum(cfg.bounciness) THEN cfg.bounciness ELSE 0,
    isGrounded |-> FALSE, isColliding |-> FALSE, collidingWith |-> <<>>,
    worldBounds |-> cfg.worldBounds ]

\* The AABB test of checkCollision.
Overlaps(e1, e2) ==
  /\ FLt(e1.x, FAdd(e2.x, e2.width))
  /\ FGt(FAdd(e1.x, e1.width), e2.x)
  /\ FLt(e1.y, FAdd(e2.y, e2.height))
  /\ FGt(FAdd(e1.y, e1.height), e2.y)

\* checkCollision(entity1, entity2): NoCollision (null) or the collision record.
checkCollision(e1, e2) ==
  IF ~Overlaps(e1, e2) THEN NoCollision
  ELSE
    LET overlapX == FMin(FSub(FAdd(e1.x, e1.width), e2.x),
                         FSub(FAdd(e2.x, e2.width), e1.x))
        overlapY == FMin(FSub(FAdd(e1.y, e1.height), e2.y),
                         FSub(FAdd(e2.y, e2.height), e1.y))
        byOverlap ==
          IF FLt(overlapX, overlapY)
          THEN (IF FGt(e1.velocityX, 0) THEN "right" ELSE "left")
          ELSE (IF FGt(e1.velocityY, 0) THEN "bottom" ELSE "top")
        side ==
          IF e1.previousX # Undefined /\ e1.previousY # Undefined
          THEN IF FLe(FAdd(e1.previousY, e1.height), e2.y) THEN "bottom"
               ELSE IF FGe(e1.previousY, FAdd(e2.y, e2.height)) THEN "top"
               ELSE IF FLe(FAdd(e1.previousX, e1.width), e2.x) THEN "right"
               ELSE IF FGe(e1.previousX, FAdd(e2.x, e2.width)) THEN "left"
               ELSE byOverlap
          ELSE byOverlap
    IN  [ entity1Id |-> e1.id, entity2Id |-> e2.id,
          overlapX |-> overlapX, overlapY |-> overlapY, side |-> side ]

\* The bounce of resolveCollision: it reads the velocity the line before it zeroed.
Bounce(e, v) == IF FGt(e.bounciness, 0) THEN FMul(FNeg(v), e.bounciness) ELSE v

\* DefaultResponse with the bottom case placing entity1's top, not its bottom,
\* on entity2's top edge.
DefaultResponse_NoHeight(e1, e2, side) ==
  CASE side = "bottom" -> [e1 EXCEPT !.y = e2.y, !.velocityY = Bounce(e1, 0)]
    [] side = "top" ->
         [e1 EXCEPT !.y = FAdd(e2.y, e2.height), !.velocityY = Bounce(e1, 0)]
    [] side = "right" ->
         [e1 EXCEPT !.x = FSub(e2.x, e1.width), !.velocityX = Bounce(e1, 0)]
    [] side = "left" ->
         [e1 EXCEPT !.x = FAdd(e2.x, e2.width), !.velocityX = Bounce(e1, 0)]
    [] OTHER -> e1

\* resolveCollision, the switch on collision.side: position correction, velocity
\* adjustment, bounce.
DefaultResponse(e1, e2, side) ==
  CASE side = "bottom" ->
         [e1 EXCEPT !.y = FSub(e2.y, e1.height), !.velocityY = Bounce(e1, 0)]
    [] side = "top" ->
         [e1 EXCEPT !.y = FAdd(e2.y, e2.height), !.velocityY = Bounce(e1, 0)]
    [] side = "right" ->
         [e1 EXCEPT !.x = FSub(e2.x, e1.width), !.velocityX = Bounce(e1, 0)]
    [] side = "left" ->
         [e1 EXCEPT !.x = FAdd(e2.x, e2.width), !.velocityX = Bounce(e1, 0)]
    [] OTHER -> e1

\* Array.prototype.pop as a statement: drops the last element, if any.
Pop(s) == IF Len(s) = 0 THEN s ELSE SubSeq(s, 1, Len(s) - 1)

\* The condition under which resolveCollision undoes its response against a
\* one-way platform; e1 is the entity after the switch.
OneWayUndone(e1, e2, side) ==
  /\ e2.type = "platform" /\ e2.oneWay
  /\ (side # "bottom" \/ FLt(e1.velocityY, 0))

\* resolveCollision, the one-way override.
OneWayOverride(e1, e2, side) ==
  IF OneWayUndone(e1, e2, side)
  THEN LET popped == Pop(e1.collidingWith)
       IN  [e1 EXCEPT !.x = IF e1.previousX = Undefined THEN NaN ELSE e1.previousX,
                      !.y = IF e1.previousY = Undefined THEN NaN ELSE e1.previousY,
                      !.collidingWith = popped,
                      !.isColliding = Len(popped) > 0,
                      !.isGrounded = FALSE]
  ELSE e1

\* resolveCollision, the momentum given to a non-static entity2; e1 is the entity
\* as the steps before left it.
MomentumExchange(e1, e2, side) ==
  IF e2.isStatic THEN e2
  ELSE LET massRatio1 == FDiv(e1.mass, FAdd(e1.mass, e2.mass))
       IN  IF side = "bottom" \/ side = "top"
           THEN [e2 EXCEPT !.velocityY =
                    FMul(FAdd(e1.velocityY, e2.velocityY), massRatio1)]
           ELSE [e2 EXCEPT !.velocityX =
                    FMul(FAdd(e1.velocityX, e2.velocityX), massRatio1)]

\* resolveCollision without the early return for a static entity1.
resolveCollision_NoStaticTest(e1, e2, collision) ==
  LET r1 == DefaultResponse(e1, e2, collision.side)
      r2 == OneWayOverride(r1, e2, collision.side)
  IN  <<r2, MomentumExchange(r2, e2, collision.side)>>

\* resolveCollision(entity1, entity2, collision): the two entities after the call.
resolveCollision(e1, e2, collision) ==
  IF e1.isStatic THEN <<e1, e2>>
  ELSE LET r1 == DefaultResponse(e1, e2, collision.side)
           r2 == OneWayOverride(r1, e2, collision.side)
       IN  <<r2, MomentumExchange(r2, e2, collision.side)>>

\* Math.floor(x / s) for a number x and a cell size s > 0.  The quotient of the
\* program is rounded before the floor; at the magnitudes of world coordinates
\* that rounding never reaches the next integer, so the floor is the exact one.
Floor(x, s) == x \div s

(***************************************************************************)
(* SpecResolve: one narrow-phase call.  A caller holds two entities,       *)
(* calls checkCollision(a, b) and, when it reports a collision, calls      *)
(* resolveCollision(a, b, collision).  rA0 and rB0 keep the entities as    *)
(* they were passed to checkCollision.                                     *)
(***************************************************************************)

\* The entity geometries a call is tried on: b's box, a's size and a's offsets
\* from b's corner.  The second scene lies where the spacing of the numbers is
\* two units, so that sums and differences round.
Scenes ==
  { [ bx |-> W(20), by |-> W(100), bw |-> W(20), bh |-> W(10),
      aw |-> W(10), ah |-> W(10),
      dxs |-> {W(0 - 5), W(5), W(15)}, dys |-> {W(0 - 5), W(5)} ],
    [ bx |-> W(20), by |-> TwoP + 6, bw |-> W(20), bh |-> W(10),
      aw |-> W(10), ah |-> 3,
      dxs |-> {W(5)}, dys |-> {0 - 2, W(5)} ] }

\* How far back the previous position lies, and the velocities tried.
Steps == {W(0 - 12), 0, W(12)}
Velocities == {W(0 - 10), 0, W(10)}

\* The second entity: a solid platform, a one-way platform, two dynamic bodies
\* (mass 3 at rest, mass 1 moving), a dynamic body whose physics component
\* has no mass field, and scenery, which has no physics component at all.
Others ==
  { [type |-> "platform", oneWay |-> FALSE, isStatic |-> TRUE, mass |-> W(1),
     velocityX |-> 0, velocityY |-> 0],
    [type |-> "platform", oneWay |-> TRUE, isStatic |-> TRUE, mass |-> W(1),
     velocityX |-> 0, velocityY |-> 0],
    [type |-> "enemy", oneWay |-> FALSE, isStatic |-> FALSE, mass |-> W(3),
     velocityX |-> 0, velocityY |-> 0],
    [type |-> "enemy", oneWay |-> FALSE, isStatic |-> FALSE, mass |-> W(1),
     velocityX |-> W(2), velocityY |-> W(2)],
    [type |-> "enemy", oneWay |-> FALSE, isStatic |-> FALSE, mass |-> Undefined,
     velocityX |-> W(2), velocityY |-> W(2)],
    [type |-> "scenery", oneWay |-> FALSE, isStatic |-> FALSE, mass |-> W(1),
     velocityX |-> 0, velocityY |-> 0] }

Body(id, type, x, y, w, h) ==
  createPhysicsComponent(
    [ id |-> id, type |-> type, x |-> x, y |-> y, width |-> w, height |-> h,
      oneWay |-> FALSE, isStatic |-> FALSE, hasGravity |-> TRUE,
      hasFriction |-> TRUE, mass |-> W(1), bounciness |-> 0,
      worldBounds |-> NoBounds ])

InitResolve ==
  /\ \E sc \in Scenes, o \in Others :
       \E dx \in sc.dxs, dy \in sc.dys, px \in Steps, py \in Steps,
          vx \in Velocities, vy \in Velocities,
          bn \in {0, Half(1)}, st \in BOOLEAN :
         LET ax == FAdd(sc.bx, dx)
             ay == FAdd(sc.by, dy)
         IN  /\ rA = [ Body("a", "player", ax, ay, sc.aw, sc.ah) EXCEPT
                         !.previousX = FSub(ax, px), !.previousY = FSub(ay, py),
                         !.velocityX = vx, !.velocityY = vy,
                         !.bounciness = bn, !.isStatic = st ]
             /\ rB = [ Body("b", o.type, sc.bx, sc.by, sc.bw, sc.bh) EXCEPT
                         !.oneWay = o.oneWay, !.isStatic = o.isStatic,
                         !.mass = o.mass, !.hasPhysics = (o.type # "scenery"),
                         !.velocityX = o.velocityX, !.velocityY = o.velocityY ]
  /\ rA0 = rA
  /\ rB0 = rB
  /\ rCollision = NoCollision
  /\ rMirror = NoCollision
  /\ rEvents = <<>>
  /\ rPc = "start"

\* const collision = this.checkCollision(a, b)
CheckCollision ==
  /\ rPc = "start"
  /\ rB.hasPhysics
  /\ rCollision' = checkCollision(rA, rB)
  /\ rPc' = "checked"
  /\ UNCHANGED <<rA, rB, rA0, rB0, rMirror, rEvents>>
  /\ ResolveOnly

\* A caller that tests the pair both ways: checkCollision(a, b) and
\* checkCollision(b, a).
CheckBothWays ==
  /\ rPc = "start"
  /\ rB.hasPhysics
  /\ rCollision' = checkCollision(rA, rB)
  /\ rMirror' = checkCollision(rB, rA)
  /\ rPc' = "mirrored"
  /\ UNCHANGED <<rA, rB, rA0, rB0, rEvents>>
  /\ ResolveOnly

\* if (collision) this.resolveCollision(a, b, collision)
ResolveCollision ==
  /\ rPc = "checked"
  /\ rCollision # NoCollision
  /\ LET r == resolveCollision(rA, rB, rCollision)
     IN  rA' = r[1] /\ rB' = r[2]
  /\ rPc' = "resolved"
  /\ UNCHANGED <<rA0, rB0, rCollision, rMirror, rEvents>>
  /\ ResolveOnly

(***************************************************************************)
(* Spec: PhysicsEngine.update(entities, deltaTime) over an entity list,    *)
(* with applyJump called between ticks.  update is one synchronous         *)
(* call; the model follows it through its loops: the first pass as one     *)
(* step, then, for each entity of the second pass, the broad-phase query,  *)
(* one step per candidate, and the boundary check.  pc is the position in  *)
(* update ("idle" between calls), idx the entity of the second pass,       *)
(* candidates the array getPotentialCollisions returned for it (indices    *)
(* into entities) and cidx the candidate being handled.  events lists what *)
(* the engine emitted since the latest update began.                       *)
(***************************************************************************)

MaxTicks == 2
MaxCalls == 2

\* One frame at 60 FPS, in ms: the divisor of timeScale.
FrameMs == FDiv(W(1000), W(60))
\* The deltaTime values a caller passes: whole frames, so that timeScale is
\* an integer and friction ** timeScale a product.  The last one is a stalled
\* frame of 200 ms.
DeltaTimes == {FrameMs, FMul(W(2), FrameMs), FMul(W(12), FrameMs)}
\* The only limit on a deltaTime in the program, the 0.1 s of Game.gameLoop,
\* in ms.
maxDeltaTime == W(100)

\* base ** n for a whole number n >= 0 (n in units).
RECURSIVE Pow(_, _)
Pow(base, n) == IF n < Units THEN W(1) ELSE FMul(base, Pow(base, n - Units))

\* The first pass without the reset of the collision flags.
Integrate_KeepFlags(e, timeScale) ==
  IF ~e.hasPhysics THEN e
  ELSE
    LET vy1 == IF e.hasGravity
               THEN LET v == FAdd(e.velocityY, FMul(gravity, timeScale))
                    IN  IF FGt(v, terminalVelocity) THEN terminalVelocity ELSE v
               ELSE e.velocityY
        vx1 == IF e.hasFriction
               THEN LET v == FMul(e.velocityX, Pow(friction, timeScale))
                    IN  IF IsNum(v) /\ Abs(v) * 100 < Units THEN 0 ELSE v
               ELSE e.velocityX
    IN  [e EXCEPT !.velocityY = vy1, !.velocityX = vx1,
                  !.previousX = e.x, !.previousY = e.y,
                  !.x = FAdd(e.x, FMul(vx1, timeScale)),
                  !.y = FAdd(e.y, FMul(vy1, timeScale))]

\* update, first pass, for one entity: gravity, friction, previous position,
\* position, collision flags.
Integrate(e, timeScale) ==
  IF ~e.hasPhysics THEN e
  ELSE
    LET vy1 == IF e.hasGravity
               THEN LET v == FAdd(e.velocityY, FMul(gravity, timeScale))
                    IN  IF FGt(v, terminalVelocity) THEN terminalVelocity ELSE v
               ELSE e.velocityY
        vx1 == IF e.hasFriction
               THEN LET v == FMul(e.velocityX, Pow(friction, timeScale))
                    IN  IF IsNum(v) /\ Abs(v) * 100 < Units THEN 0 ELSE v
               ELSE e.velocityX
    IN  [e EXCEPT !.velocityY = vy1, !.velocityX = vx1,
                  !.previousX = e.x, !.previousY = e.y,
                  !.x = FAdd(e.x, FMul(vx1, timeScale)),
                  !.y = FAdd(e.y, FMul(vy1, timeScale)),
                  !.isColliding = FALSE, !.isGrounded = FALSE,
                  !.collidingWith = <<>>]

\* The cells an entity's box spans, in the order of the two nested loops of
\* addToSpatialHash and getPotentialCollisions (x outer, y inner).
CellKeys(e) ==
  IF ~(IsNum(e.x) /\ IsNum(e.y) /\ IsNum(e.width) /\ IsNum(e.height)) THEN <<>>
  ELSE
    LET minCellX == Floor(e.x, spatialHashCellSize)
        maxCellX == Floor(FAdd(e.x, e.width), spatialHashCellSize)
        minCellY == Floor(e.y, spatialHashCellSize)
        maxCellY == Floor(FAdd(e.y, e.height), spatialHashCellSize)
        nx == maxCellX - minCellX + 1
        ny == maxCellY - minCellY + 1
    IN  IF nx <= 0 \/ ny <= 0 THEN <<>>
        ELSE [n \in 1..(nx * ny) |->
                <<minCellX + ((n - 1) \div ny), minCellY + ((n - 1) % ny)>>]

Range(s) == {s[i] : i \in DOMAIN s}

\* The members of a set of indices, ascending from `from`, as a sequence.
RECURSIVE Ascending(_, _)
Ascending(set, from) ==
  IF \A i \in set : i < from THEN <<>>
  ELSE IF from \in set THEN <<from>> \o Ascending(set, from + 1)
  ELSE Ascending(set, from + 1)

\* resetSpatialHash, then addToSpatialHash for every physics entity in list
\* order: the map from cell key to the entities (indices) pushed to it.
addToSpatialHash(ents) ==
  LET phys == {i \in DOMAIN ents : ents[i].hasPhysics}
      keys == UNION {Range(CellKeys(ents[i])) : i \in phys}
  IN  [k \in keys |-> Ascending({i \in phys : k \in Range(CellKeys(ents[i]))}, 1)]

\* candidates.add(other) for every element of a cell's list: a Set keeps the
\* first insertion of each element.
RECURSIVE AddAll(_, _)
AddAll(cands, list) ==
  IF list = <<>> THEN cands
  ELSE AddAll(IF Head(list) \in Range(cands) THEN cands
              ELSE Append(cands, Head(list)), Tail(list))

RECURSIVE Collect(_, _, _)
Collect(cands, keys, hash) ==
  IF keys = <<>> THEN cands
  ELSE Collect(IF Head(keys) \in DOMAIN hash
               THEN AddAll(cands, hash[Head(keys)]) ELSE cands,
               Tail(keys), hash)

\* getPotentialCollisions collecting into an array instead of a Set: every
\* element of every cell list is kept.
RECURSIVE CollectArray(_, _, _)
CollectArray(cands, keys, hash) ==
  IF keys = <<>> THEN cands
  ELSE CollectArray(IF Head(keys) \in DOMAIN hash
                    THEN cands \o hash[Head(keys)] ELSE cands,
                    Tail(keys), hash)
getPotentialCollisions_Array(e, hash) == CollectArray(<<>>, CellKeys(e), hash)

\* getPotentialCollisions(entity): Array.from(candidates).
getPotentialCollisions(e, hash) == Collect(<<>>, CellKeys(e), hash)

Event(name, entity, other, side) ==
  [name |-> name, entity |-> entity, other |-> other, side |-> side]

\* checkWorldBoundaries(entity): the entity after the call and the events emitted.
checkWorldBoundaries(e) ==
  IF ~e.hasPhysics \/ e.isStatic \/ e.worldBounds = NoBounds THEN <<e, <<>>>>
  ELSE
    LET wb == e.worldBounds
        h == IF wb.minX # Undefined /\ FLt(e.x, wb.minX)
             THEN [e EXCEPT !.x = wb.minX, !.velocityX = 0]
             ELSE IF wb.maxX # Undefined /\ FGt(FAdd(e.x, e.width), wb.maxX)
             THEN [e EXCEPT !.x = FSub(wb.maxX, e.width), !.velocityX = 0]
             ELSE e
    IN  IF wb.minY # Undefined /\ FLt(h.y, wb.minY)
        THEN <<[h EXCEPT !.y = wb.minY, !.velocityY = 0], <<>>>>
        ELSE IF wb.maxY # Undefined /\ FGt(FAdd(h.y, h.height), wb.maxY)
        THEN LET v == [h EXCEPT !.y = FSub(wb.maxY, h.height), !.velocityY = 0,
                                !.isGrounded = TRUE]
             IN  <<v, IF FGt(wb.maxY, W(1000)) /\ FGe(FAdd(v.y, v.height), wb.maxY)
                      THEN <<Event("fellOffWorld", v.id, "", "none")>>
                      ELSE <<>>>>
        ELSE <<h, <<>>>>

\* update, second pass, the body of candidates.forEach for candidate j of
\* entity i: the entity list after it and the events emitted.
HandleCandidate(ents, i, j) ==
  LET entity == ents[i]
      other == ents[j]
  IN  IF entity.id = other.id \/ ~other.hasPhysics THEN <<ents, <<>>>>
      ELSE
        LET collision == checkCollision(entity, other)
        IN  IF collision = NoCollision THEN <<ents, <<>>>>
            ELSE
              LET r == resolveCollision(entity, other, collision)
                  flagged ==
                    [r[1] EXCEPT
                       !.isColliding = TRUE,
                       !.collidingWith =
                          Append(@, [id |-> other.id, type |-> other.type,
                                     side |-> collision.side]),
                       !.isGrounded = IF collision.side = "bottom" THEN TRUE ELSE @]
              IN  <<[ents EXCEPT ![i] = flagged, ![j] = r[2]],
                    <<Event("collision", entity.id, other.id, collision.side)>>>>

\* SpecResolve: the body of candidates.forEach run on the pair, a being the
\* entity of the second pass (never a static one) and b the candidate.
HandlePair ==
  /\ rPc = "start"
  /\ ~rA.isStatic
  /\ LET r == HandleCandidate(<<rA, rB>>, 1, 2)
     IN  rA' = r[1][1] /\ rB' = r[1][2] /\ rEvents' = r[2]
  /\ rPc' = "handled"
  /\ UNCHANGED <<rA0, rB0, rCollision, rMirror>>
  /\ ResolveOnly

NextResolve == CheckCollision \/ CheckBothWays \/ ResolveCollision \/ HandlePair

\* applyJump without the test of isGrounded.
applyJump_Airborne(e, force) ==
  IF ~e.hasPhysics THEN <<e, FALSE, <<>>>>
  ELSE <<[e EXCEPT !.velocityY = IF force # Undefined THEN force ELSE jumpForce,
                   !.isGrounded = FALSE],
         TRUE, <<[name |-> "jump", entity |-> e.id, other |-> "", side |-> "none"]>>>>

\* applyJump(entity, force): the entity after the call, the return value and
\* the events emitted.  force = Undefined stands for the omitted argument.
applyJump(e, force) ==
  IF ~e.hasPhysics \/ ~e.isGrounded THEN <<e, FALSE, <<>>>>
  ELSE <<[e EXCEPT !.velocityY = IF force # Undefined THEN force ELSE jumpForce,
                   !.isGrounded = FALSE],
         TRUE, <<Event("jump", e.id, "", "none")>>>>

\* applyForce(entity, forceX, forceY): the entity after the call and the
\* events emitted.  mass || 1 replaces a mass of 0, NaN or undefined.
applyForce(e, forceX, forceY) ==
  IF ~e.hasPhysics THEN <<e, <<>>>>
  ELSE
    LET mass == IF e.mass = 0 \/ ~IsNum(e.mass) THEN W(1) ELSE e.mass
    IN  <<[e EXCEPT !.velocityX = FAdd(@, FDiv(forceX, mass)),
                    !.velocityY = FAdd(@, FDiv(forceY, mass))],
          <<Event("forceApplied", e.id, "", "none")>>>>

\* applyImpulse(entity, velocityX, velocityY): the entity after the call and
\* the events emitted.
applyImpulse(e, velocityX, velocityY) ==
  IF ~e.hasPhysics THEN <<e, <<>>>>
  ELSE <<[e EXCEPT !.velocityX = velocityX, !.velocityY = velocityY],
         <<Event("impulseApplied", e.id, "", "none")>>>>

\* The latest call of the force API: the method, the entity (its index) and
\* the arguments.
Call(op, i, a1, a2) == [op |-> op, entity |-> i, a1 |-> a1, a2 |-> a2]
NoCall == Call("none", 0, 0, 0)

\* A static platform as a level supplies it to the engine.
Plat(id, x, y, w, h, oneWay) ==
  [Body(id, "platform", x, y, w, h) EXCEPT
     !.isStatic = TRUE, !.hasGravity = FALSE, !.hasFriction = FALSE,
     !.oneWay = oneWay]

\* A dynamic body with a velocity.
Dyn(id, type, x, y, w, h, vx, vy, grav, fric) ==
  [Body(id, type, x, y, w, h) EXCEPT
     !.velocityX = vx, !.velocityY = vy, !.hasGravity = grav, !.hasFriction = fric]

\* The entity lists the engine is run on.
\* Landing: one body above, inside or below a platform, solid or one-way.
LandingWorlds ==
  { << Dyn("a", "player", W(0), y, W(10), W(10), 0, vy, grav, TRUE),
       Plat("b", W(0), W(100), W(100), W(10), ow) >> :
      y \in {W(86), W(90), W(102), W(112)}, vy \in {W(0 - 8), 0, W(5)},
      grav \in BOOLEAN, ow \in BOOLEAN }

\* Crowd: a body running into a wall next to a second body, in both list orders.
CrowdWorlds ==
  { IF first
    THEN << Dyn("a", "player", W(94), W(0), W(10), W(10), vx, 0, FALSE, FALSE),
            Plat("b", W(105), W(0), W(10), W(30), FALSE),
            Dyn("c", "enemy", W(80), W(0), W(16), W(10), 0, 0, FALSE, FALSE) >>
    ELSE << Dyn("c", "enemy", W(80), W(0), W(16), W(10), 0, 0, FALSE, FALSE),
            Plat("b", W(105), W(0), W(10), W(30), FALSE),
            Dyn("a", "player", W(94), W(0), W(10), W(10), vx, 0, FALSE, FALSE) >> :
      vx \in {W(3), W(7)}, first \in BOOLEAN }

\* Stairs: a body falling onto two platforms at once, the second (later in the
\* list) a step above the first, solid or one-way.
StairWorlds ==
  { << Dyn("a", "player", W(10), W(85), W(10), W(10), vx, W(12), FALSE, FALSE),
       Plat("b", W(0), W(100), W(100), W(10), FALSE),
       Plat("e", W(5), W(98), W(50), W(10), ow) >> :
      vx \in {0, W(4)}, ow \in BOOLEAN }

\* The worldBounds a level declares: a room, a level over a pit (maxY above
\* 1000) and a pit whose maxX and maxY lie where the spacing of the numbers is
\* two units, so that maxX - width and maxY - height round.
Room == [minX |-> 0, maxX |-> W(200), minY |-> 0, maxY |-> W(300)]
Pit == [minX |-> 0, maxX |-> W(200), minY |-> 0, maxY |-> W(1200)]
FinePit == [minX |-> 0, maxX |-> TwoP + 6, minY |-> 0, maxY |-> TwoP + 2]

\* Bounded: one body with worldBounds, two units from the min or the max
\* corner of its bounds, moving towards the corner or away from it.
BoundedWorlds ==
  { << [Dyn("a", "player",
            IF atMax THEN FSub(FSub(wb.maxX, sz[1]), W(2)) ELSE W(2),
            IF atMax THEN FSub(FSub(wb.maxY, sz[2]), W(2)) ELSE W(2),
            sz[1], sz[2], vx, vy, FALSE, FALSE) EXCEPT !.worldBounds = wb] >> :
      wb \in {Room, Pit, FinePit}, sz \in {<<W(10), W(10)>>, <<3, 1>>},
      atMax \in BOOLEAN, vx \in {W(0 - 5), W(5)}, vy \in {W(0 - 5), W(5)} }

\* Ledge: the stairs with a third platform, a ledge to the right of the
\* falling body and above the steps, solid or one-way.
LedgeWorlds ==
  { << Dyn("a", "player", W(10), W(85), W(10), W(10), W(4), W(12), FALSE, FALSE),
       Plat("b", W(0), W(100), W(100), W(10), FALSE),
       Plat("e", W(5), W(98), W(50), W(10), FALSE),
       Plat("f", W(20), W(80), W(30), W(30), ow) >> : ow \in BOOLEAN }

\* Corner: a body falling towards the corner of a floor and a wall standing
\* on it, the wall before or after the floor in the list.
CornerWorlds ==
  { IF first
    THEN << Dyn("a", "player", W(10), W(85), W(10), W(10), W(4), W(12), FALSE, FALSE),
            Plat("d", W(22), W(60), W(10), W(40), FALSE),
            Plat("b", W(0), W(100), W(100), W(10), FALSE) >>
    ELSE << Dyn("a", "player", W(10), W(85), W(10), W(10), W(4), W(12), FALSE, FALSE),
            Plat("b", W(0), W(100), W(100), W(10), FALSE),
            Plat("d", W(22), W(60), W(10), W(40), FALSE) >> : first \in BOOLEAN }

\* Default static: a body above a static entity whose physics component was
\* made with isStatic alone, every other flag at its default.
DefaultStaticWorlds ==
  { << Dyn("a", "player", W(0), W(86), W(10), W(10), 0, vy, FALSE, FALSE),
       [Body("b", "platform", W(0), W(100), W(100), W(10)) EXCEPT
          !.isStatic = TRUE] >> : vy \in {0, W(5)} }

Worlds ==
  LandingWorlds \cup CrowdWorlds \cup StairWorlds \cup BoundedWorlds
    \cup LedgeWorlds \cup CornerWorlds \cup DefaultStaticWorlds

InitEngine ==
  /\ entities \in Worlds
  /\ spatialHash = <<>>
  /\ pc = "idle"
  /\ idx = 1
  /\ candidates = <<>>
  /\ cidx = 1
  /\ events = <<>>
  /\ ticks = 0
  /\ calls = 0
  /\ lastCall = NoCall
  /\ jumpResult = FALSE

\* update(entities, deltaTime) up to the end of the first pass.
Update(deltaTime) ==
  /\ pc = "idle"
  /\ ticks < MaxTicks
  /\ LET timeScale == FDiv(deltaTime, FrameMs)
         moved == [i \in DOMAIN entities |-> Integrate(entities[i], timeScale)]
     IN  /\ entities' = moved
         /\ spatialHash' = addToSpatialHash(moved)
  /\ pc' = "secondPass"
  /\ idx' = 1
  /\ candidates' = <<>>
  /\ cidx' = 1
  /\ events' = <<>>
  /\ ticks' = ticks + 1
  /\ calls' = 0
  /\ UNCHANGED <<lastCall, jumpResult>>
  /\ EngineOnly

\* Second pass: a non-physical or static entity is skipped.
SkipEntity ==
  /\ pc = "secondPass"
  /\ idx <= Len(entities)
  /\ ~entities[idx].hasPhysics \/ entities[idx].isStatic
  /\ idx' = idx + 1
  /\ UNCHANGED <<entities, spatialHash, pc, candidates, cidx, events, ticks,
                 calls, lastCall, jumpResult>>
  /\ EngineOnly

\* Second pass: const candidates = this.getPotentialCollisions(entity).
QueryCandidates ==
  /\ pc = "secondPass"
  /\ idx <= Len(entities)
  /\ entities[idx].hasPhysics /\ ~entities[idx].isStatic
  /\ candidates' = getPotentialCollisions(entities[idx], spatialHash)
  /\ cidx' = 1
  /\ pc' = "candidates"
  /\ UNCHANGED <<entities, spatialHash, idx, events, ticks, calls, lastCall, jumpResult>>
  /\ EngineOnly

\* Second pass: one iteration of candidates.forEach.
Candidate ==
  /\ pc = "candidates"
  /\ cidx <= Len(candidates)
  /\ LET r == HandleCandidate(entities, idx, candidates[cidx])
     IN  entities' = r[1] /\ events' = events \o r[2]
  /\ cidx' = cidx + 1
  /\ UNCHANGED <<spatialHash, pc, idx, candidates, ticks, calls, lastCall, jumpResult>>
  /\ EngineOnly

\* Second pass: this.checkWorldBoundaries(entity), then the next entity.
Boundaries ==
  /\ pc = "candidates"
  /\ cidx > Len(candidates)
  /\ LET r == checkWorldBoundaries(entities[idx])
     IN  entities' = [entities EXCEPT ![idx] = r[1]] /\ events' = events \o r[2]
  /\ idx' = idx + 1
  /\ pc' = "secondPass"
  /\ UNCHANGED <<spatialHash, candidates, cidx, ticks, calls, lastCall, jumpResult>>
  /\ EngineOnly

\* return entities
Return ==
  /\ pc = "secondPass"
  /\ idx > Len(entities)
  /\ pc' = "idle"
  /\ UNCHANGED <<entities, spatialHash, idx, candidates, cidx, events, ticks,
                 calls, lastCall, jumpResult>>
  /\ EngineOnly

\* The input layer calls applyJump(entity, force) between two ticks.
ApplyJump(i, force) ==
  /\ pc = "idle"
  /\ calls < MaxCalls
  /\ LET r == applyJump(entities[i], force)
     IN  /\ entities' = [entities EXCEPT ![i] = r[1]]
         /\ jumpResult' = r[2]
         /\ events' = events \o r[3]
  /\ calls' = calls + 1
  /\ lastCall' = Call("applyJump", i, force, 0)
  /\ UNCHANGED <<spatialHash, pc, idx, candidates, cidx, ticks>>
  /\ EngineOnly

\* The caller calls applyForce(entity, forceX, forceY) between two ticks.
ApplyForce(i, forceX, forceY) ==
  /\ pc = "idle"
  /\ calls < MaxCalls
  /\ LET r == applyForce(entities[i], forceX, forceY)
     IN  /\ entities' = [entities EXCEPT ![i] = r[1]]
         /\ events' = events \o r[2]
  /\ calls' = calls + 1
  /\ lastCall' = Call("applyForce", i, forceX, forceY)
  /\ UNCHANGED <<spatialHash, pc, idx, candidates, cidx, ticks, jumpResult>>
  /\ EngineOnly

\* The caller calls applyImpulse(entity, velocityX, velocityY) between two ticks.
ApplyImpulse(i, velocityX, velocityY) ==
  /\ pc = "idle"
  /\ calls < MaxCalls
  /\ LET r == applyImpulse(entities[i], velocityX, velocityY)
     IN  /\ entities' = [entities EXCEPT ![i] = r[1]]
         /\ events' = events \o r[2]
  /\ calls' = calls + 1
  /\ lastCall' = Call("applyImpulse", i, velocityX, velocityY)
  /\ UNCHANGED <<spatialHash, pc, idx, candidates, cidx, ticks, jumpResult>>
  /\ EngineOnly

NextEngine ==
  \/ \E dt \in DeltaTimes : Update(dt)
  \/ SkipEntity
  \/ QueryCandidates
  \/ Candidate
  \/ Boundaries
  \/ Return
  \/ \E i \in DOMAIN entities, force \in {Undefined, W(0 - 8)} : ApplyJump(i, force)

\* Stack: a body falling onto a dynamic body that has gravity, the lower one
\* with a mass or without one.
StackWorlds ==
  { << Dyn("a", "player", W(0), W(86), W(10), W(10), 0, W(5), FALSE, FALSE),
       [Dyn("c", "enemy", W(0), W(100), W(10), W(10), 0, 0, TRUE, FALSE) EXCEPT
          !.mass = m] >> : m \in {W(1), Undefined} }

\* The entities the force API is called on between ticks: a dynamic body,
\* grounded or not, with a mass, with mass 0 or without one; a static
\* platform; an entity without a physics component; the stacks.
ForceWorlds ==
  { << [Dyn("a", "player", W(0), W(90), W(10), W(10), 0, 0, TRUE, TRUE) EXCEPT
          !.isGrounded = g, !.mass = m] >> :
      g \in BOOLEAN, m \in {W(1), W(2), 0, Undefined} }
  \cup { << Plat("b", W(0), W(100), W(100), W(10), FALSE) >> }
  \cup { << [Body("s", "scenery", W(0), W(0), W(10), W(10)) EXCEPT
              !.hasPhysics = FALSE] >> }
  \cup StackWorlds

InitForce ==
  /\ entities \in ForceWorlds
  /\ spatialHash = <<>>
  /\ pc = "idle"
  /\ idx = 1
  /\ candidates = <<>>
  /\ cidx = 1
  /\ events = <<>>
  /\ ticks = 0
  /\ calls = 0
  /\ lastCall = NoCall
  /\ jumpResult = FALSE

NextForce ==
  \/ \E i \in DOMAIN entities, force \in {Undefined, W(0 - 8)} : ApplyJump(i, force)
  \/ \E i \in DOMAIN entities, f \in {<<W(4), W(0 - 4)>>, <<0, W(6)>>} :
       ApplyForce(i, f[1], f[2])
  \/ \E i \in DOMAIN entities, v \in {<<W(2), 0>>, <<W(0 - 3), W(0 - 9)>>} :
       ApplyImpulse(i, v[1], v[2])
  \/ Update(FrameMs)
  \/ SkipEntity
  \/ QueryCandidates
  \/ Candidate
  \/ Boundaries
  \/ Return

(***************************************************************************)
(* Platform (client/scripts/entities/platform.js).  A platform is a record *)
(* of the object's fields; behaviors holds the fields initBehaviors gives  *)
(* the platform's type.  Times are seconds.                                *)
(***************************************************************************)

\* A Player object (the fields that physics and platforms read or write).
Player(id, x, y, width, height) ==
  [id |-> id, x |-> x, y |-> y, width |-> width, height |-> height,
   velocityX |-> 0, velocityY |-> 0, isGrounded |-> FALSE,
   isJumping |-> FALSE, direction |-> "right"]

initBehaviors(type, x, y) ==
  CASE type = "moving" ->
         [movingHorizontal |-> TRUE, movingVertical |-> FALSE,
          moveSpeed |-> W(1), moveDistance |-> W(100),
          startPosition |-> [x |-> x, y |-> y],
          moveDirection |-> W(1), pauseTime |-> 0, pauseDuration |-> Half(1)]
    [] type = "breaking" ->
         [breakingState |-> "stable", breakingTimer |-> 0,
          breakingDuration |-> Half(1), respawnTimer |-> 0,
          respawnDuration |-> W(3), triggered |-> FALSE]
    [] type = "bouncy" ->
         [bounciness |-> Half(3), compressionState |-> 0, recoverSpeed |-> W(5)]
    [] OTHER -> [static |-> TRUE]

\* new Platform(id, x, y, width, height, type)
Platform(id, x, y, width, height, type) ==
  [id |-> id, x |-> x, y |-> y, width |-> width, height |-> height,
   type |-> type, velocityX |-> 0, velocityY |-> 0, solid |-> TRUE,
   behaviors |-> initBehaviors(type, x, y),
   animation |-> [frame |-> 0, frameTime |-> 0,
                  totalFrames |-> IF type = "breaking" THEN 4 ELSE 1]]

\* update, the animation clock: four frames a second, the frame advancing
\* only while a breaking platform breaks.
Animate(p, deltaTime) ==
  LET frameTime == FAdd(p.animation.frameTime, deltaTime)
  IN  IF FGt(frameTime, Quarter(1))
      THEN [p EXCEPT !.animation.frameTime = 0,
                     !.animation.frame =
                        IF p.type = "breaking"
                           /\ p.behaviors.breakingState = "breaking"
                        THEN (@ + 1) % p.animation.totalFrames
                        ELSE @]
      ELSE [p EXCEPT !.animation.frameTime = frameTime]

\* updateMovingPlatform, one axis: the distance from the start position, the
\* reversal with a pause at the end of the track, the velocity.
MoveAxis(p, horizontal) ==
  LET b == p.behaviors
      distance == IF horizontal THEN FAbs(FSub(p.x, b.startPosition.x))
                  ELSE FAbs(FSub(p.y, b.startPosition.y))
      reached == FGe(distance, b.moveDistance)
      moveDirection == IF reached THEN FMul(b.moveDirection, W(0 - 1))
                       ELSE b.moveDirection
      q == [p EXCEPT !.behaviors.moveDirection = moveDirection,
                     !.behaviors.pauseTime =
                        IF reached THEN b.pauseDuration ELSE @]
  IN  IF horizontal
      THEN [q EXCEPT !.velocityX = FMul(b.moveSpeed, moveDirection)]
      ELSE [q EXCEPT !.velocityY = FMul(b.moveSpeed, moveDirection)]

updateMovingPlatform(p, deltaTime) ==
  IF FGt(p.behaviors.pauseTime, 0)
  THEN [p EXCEPT !.behaviors.pauseTime = FSub(@, deltaTime),
                 !.velocityX = 0, !.velocityY = 0]
  ELSE LET h == IF p.behaviors.movingHorizontal THEN MoveAxis(p, TRUE) ELSE p
       IN  IF h.behaviors.movingVertical THEN MoveAxis(h, FALSE) ELSE h

\* updateBreakingPlatform with the respawn as soon as the platform is broken,
\* whatever the respawn timer.
updateBreakingPlatform_Early(p, deltaTime) ==
  LET b == p.behaviors
  IN  IF b.breakingState = "breaking"
      THEN LET breakingTimer == FAdd(b.breakingTimer, deltaTime)
           IN  IF FGe(breakingTimer, b.breakingDuration)
               THEN [p EXCEPT !.behaviors.breakingTimer = breakingTimer,
                              !.behaviors.breakingState = "broken",
                              !.solid = FALSE]
               ELSE [p EXCEPT !.behaviors.breakingTimer = breakingTimer]
      ELSE IF b.breakingState = "broken"
      THEN [p EXCEPT !.behaviors.respawnTimer = 0,
                     !.behaviors.breakingState = "stable",
                     !.behaviors.breakingTimer = 0,
                     !.behaviors.triggered = FALSE,
                     !.solid = TRUE,
                     !.animation.frame = 0]
      ELSE p

updateBreakingPlatform(p, deltaTime) ==
  LET b == p.behaviors
  IN  IF b.breakingState = "breaking"
      THEN LET breakingTimer == FAdd(b.breakingTimer, deltaTime)
           IN  IF FGe(breakingTimer, b.breakingDuration)
               THEN [p EXCEPT !.behaviors.breakingTimer = breakingTimer,
                              !.behaviors.breakingState = "broken",
                              !.solid = FALSE]
               ELSE [p EXCEPT !.behaviors.breakingTimer = breakingTimer]
      ELSE IF b.breakingState = "broken"
      THEN LET respawnTimer == FAdd(b.respawnTimer, deltaTime)
           IN  IF FGe(respawnTimer, b.respawnDuration)
               THEN [p EXCEPT !.behaviors.breakingState = "stable",
                              !.behaviors.breakingTimer = 0,
                              !.behaviors.respawnTimer = 0,
                              !.behaviors.triggered = FALSE,
                              !.solid = TRUE,
                              !.animation.frame = 0]
               ELSE [p EXCEPT !.behaviors.respawnTimer = respawnTimer]
      ELSE p

\* updateBouncyPlatform without the floor at 0.
updateBouncyPlatform_NoFloor(p, deltaTime) ==
  LET b == p.behaviors
  IN  IF FGt(b.compressionState, 0)
      THEN [p EXCEPT !.behaviors.compressionState =
                        FSub(b.compressionState, FMul(b.recoverSpeed, deltaTime))]
      ELSE p

updateBouncyPlatform(p, deltaTime) ==
  LET b == p.behaviors
  IN  IF FGt(b.compressionState, 0)
      THEN LET compressionState ==
                 FSub(b.compressionState, FMul(b.recoverSpeed, deltaTime))
           IN  [p EXCEPT !.behaviors.compressionState =
                            IF FLt(compressionState, 0) THEN 0
                            ELSE compressionState]
      ELSE p

\* Platform.update(deltaTime)
update(p, deltaTime) ==
  LET q == Animate(p, deltaTime)
  IN  CASE q.type = "moving" -> updateMovingPlatform(q, deltaTime)
        [] q.type = "breaking" -> updateBreakingPlatform(q, deltaTime)
        [] q.type = "bouncy" -> updateBouncyPlatform(q, deltaTime)
        [] OTHER -> q

\* Platform.triggerBehavior(player): the platform and the player after the
\* call, and the return value.
triggerBehavior(p, player) ==
  CASE p.type = "breaking" ->
         IF p.behaviors.breakingState = "stable" /\ ~p.behaviors.triggered
         THEN <<[p EXCEPT !.behaviors.breakingState = "breaking",
                          !.behaviors.breakingTimer = 0,
                          !.behaviors.triggered = TRUE,
                          !.animation.frame = 0],
                player, TRUE>>
         ELSE <<p, player, FALSE>>
    [] p.type = "bouncy" ->
         IF FGt(player.velocityY, 0)
         THEN <<[p EXCEPT !.behaviors.compressionState = W(1)],
                [player EXCEPT
                   !.velocityY = FMul(FNeg(FAbs(player.velocityY)),
                                      p.behaviors.bounciness),
                   !.isJumping = TRUE,
                   !.isGrounded = FALSE],
                TRUE>>
         ELSE <<p, player, FALSE>>
    [] OTHER -> <<p, player, FALSE>>

\* Platform.adjustPlayerPosition(player): the player after the call.
adjustPlayerPosition(p, player) ==
  IF p.type = "moving"
  THEN [player EXCEPT !.x = FAdd(player.x, p.velocityX),
                      !.y = FAdd(player.y, p.velocityY)]
  ELSE player

\* Platform.getBoundingBox()
getBoundingBox(p) ==
  IF p.solid
  THEN [x |-> p.x, y |-> p.y, width |-> p.width, height |-> p.height]
  ELSE [x |-> p.x, y |-> p.y, width |-> 0, height |-> 0]

(***************************************************************************)
(* SpecPlatform: one platform driven through its public methods by a       *)
(* caller that holds a player.                                             *)
(***************************************************************************)

\* The updates counted in pSteady, and the distance the caller lets a
\* platform carry its player.
MaxPlatformTicks == 100
MaxCarry == 2

PlatformTypes == {"ground", "platform", "moving", "breaking", "bouncy"}
DeltaSeconds == {0, Eighth(1), Quarter(1), W(1)}
PlayerVelocities == {W(0 - 4), 0, W(8)}
NoBox == [x |-> 0, y |-> 0, width |-> 0, height |-> 0]

InitPlatform ==
  /\ \E type \in PlatformTypes :
       platform = Platform("p", 0, W(100), W(100), W(10), type)
  /\ rider = Player("luna", W(20), W(60), W(60), W(40))
  /\ pSteady = 0
  /\ pOp = "none"
  /\ pDelta = 0
  /\ pFrom = platform
  /\ pResult = FALSE
  /\ pBox = NoBox

\* platform.update(deltaTime).  pSteady counts the updates for as long as
\* every one of them took one second.
PlatformUpdate(deltaTime) ==
  /\ platform' = update(platform, deltaTime)
  /\ pSteady' = IF pSteady >= 0 /\ pSteady < MaxPlatformTicks /\ deltaTime = W(1)
                THEN pSteady + 1 ELSE 0 - 1
  /\ pOp' = "update"
  /\ pDelta' = deltaTime
  /\ pFrom' = platform
  /\ UNCHANGED <<rider, pResult, pBox>>
  /\ PlatformOnly

\* platform.triggerBehavior(player), the player arriving with velocityY = v.
TriggerBehavior(v) ==
  /\ LET r == triggerBehavior(platform, [rider EXCEPT !.velocityY = v])
     IN  /\ platform' = r[1]
         /\ rider' = r[2]
         /\ pResult' = r[3]
  /\ pOp' = "triggerBehavior"
  /\ pFrom' = platform
  /\ UNCHANGED <<pSteady, pDelta, pBox>>
  /\ PlatformOnly

\* platform.adjustPlayerPosition(player)
AdjustPlayerPosition ==
  /\ FLt(FAbs(FSub(rider.x, W(20))), W(MaxCarry))
  /\ rider' = adjustPlayerPosition(platform, rider)
  /\ pOp' = "adjustPlayerPosition"
  /\ pFrom' = platform
  /\ UNCHANGED <<platform, pSteady, pDelta, pResult, pBox>>
  /\ PlatformOnly

\* platform.getBoundingBox()
GetBoundingBox ==
  /\ pBox' = getBoundingBox(platform)
  /\ pOp' = "getBoundingBox"
  /\ pFrom' = platform
  /\ UNCHANGED <<platform, rider, pSteady, pDelta, pResult>>
  /\ PlatformOnly

NextPlatform ==
  \/ \E deltaTime \in DeltaSeconds : PlatformUpdate(deltaTime)
  \/ \E v \in PlayerVelocities : TriggerBehavior(v)
  \/ AdjustPlayerPosition
  \/ GetBoundingBox

(***************************************************************************)
(* The client's frame (Game.gameLoop in client/scripts/physics.js, with    *)
(* the Physics helper it calls): a level with the local player and its     *)
(* platforms, and no enemy, collectible or remote player.                  *)
(***************************************************************************)

MaxFrames == 2

\* The Game's constants, its canvas and its Physics instance.
constants == [PLAYER_SPEED |-> W(5), JUMP_FORCE |-> W(12)]
gameWidth == W(1000)
gameHeight == W(600)
physics == [gravity |-> Half(1), friction |-> FDiv(W(8), W(10)),
            terminalVelocity |-> W(12)]
spawnPoint == [x |-> W(50), y |-> W(400)]

\* Physics.updateEntity(entity, deltaTime)
updateEntity(entity) ==
  LET fallen == FAdd(entity.velocityY, physics.gravity)
      velocityY == IF FGt(fallen, physics.terminalVelocity)
                   THEN physics.terminalVelocity ELSE fallen
  IN  [entity EXCEPT !.velocityY = velocityY,
                     !.x = FAdd(entity.x, entity.velocityX),
                     !.y = FAdd(entity.y, velocityY)]

\* Physics.checkCollision(entity1, entity2): a boolean.
Physics_checkCollision(entity1, entity2) ==
  /\ FLt(entity1.x, FAdd(entity2.x, entity2.width))
  /\ FGt(FAdd(entity1.x, entity1.width), entity2.x)
  /\ FLt(entity1.y, FAdd(entity2.y, entity2.height))
  /\ FGt(FAdd(entity1.y, entity1.height), entity2.y)

\* Physics.getCollisionSide(entity1, entity2)
getCollisionSide(entity1, entity2) ==
  LET overlapX == FMin(FSub(FAdd(entity1.x, entity1.width), entity2.x),
                       FSub(FAdd(entity2.x, entity2.width), entity1.x))
      overlapY == FMin(FSub(FAdd(entity1.y, entity1.height), entity2.y),
                       FSub(FAdd(entity2.y, entity2.height), entity1.y))
  IN  IF FLt(overlapX, overlapY)
      THEN IF FLt(entity1.x, entity2.x) THEN "right" ELSE "left"
      ELSE IF FLt(entity1.y, entity2.y) THEN "bottom" ELSE "top"

\* Game.updateEntities, the local player: the keys held, the jump, and the
\* grounded flag cleared until the collision pass.
updateEntities(p, keys) ==
  LET moved == IF keys.left
               THEN [p EXCEPT !.velocityX = FNeg(constants.PLAYER_SPEED),
                              !.direction = "left"]
               ELSE IF keys.right
               THEN [p EXCEPT !.velocityX = constants.PLAYER_SPEED,
                              !.direction = "right"]
               ELSE [p EXCEPT !.velocityX = FMul(@, physics.friction)]
      jumped == IF keys.jump /\ moved.isGrounded
                THEN [moved EXCEPT !.velocityY = FNeg(constants.JUMP_FORCE),
                                   !.isJumping = TRUE]
                ELSE moved
  IN  [jumped EXCEPT !.isGrounded = FALSE]

\* Game.checkCollisions, one platform of the loop: the player after it and
\* what the check of this platform found.
PlatformCollision(p, plat) ==
  LET side == getCollisionSide(p, plat)
  IN  IF side = "top" /\ FGt(p.velocityY, 0)
      THEN <<[p EXCEPT !.y = FSub(plat.y, p.height), !.velocityY = 0,
                       !.isGrounded = TRUE, !.isJumping = FALSE], side, TRUE>>
      ELSE IF side = "bottom" /\ FLt(p.velocityY, 0)
      THEN <<[p EXCEPT !.y = FAdd(plat.y, plat.height), !.velocityY = 0],
             side, FALSE>>
      ELSE IF side = "left" /\ FGt(p.velocityX, 0)
      THEN <<[p EXCEPT !.x = FSub(plat.x, p.width), !.velocityX = 0],
             side, FALSE>>
      ELSE IF side = "right" /\ FLt(p.velocityX, 0)
      THEN <<[p EXCEPT !.x = FAdd(plat.x, plat.width), !.velocityX = 0],
             side, FALSE>>
      ELSE <<p, side, FALSE>>

\* Game.checkCollisions, the loop over the platforms: the player, whether it
\* stands on one, and the collisions checkCollision reported, in order.
RECURSIVE PlatformPass(_, _)
PlatformPass(acc, plats) ==
  IF plats = <<>> THEN acc
  ELSE LET plat == Head(plats)
       IN  IF ~Physics_checkCollision(acc.player, plat)
           THEN PlatformPass(acc, Tail(plats))
           ELSE LET r == PlatformCollision(acc.player, plat)
                IN  PlatformPass(
                      [player |-> r[1],
                       isOnGround |-> acc.isOnGround \/ r[3],
                       contacts |-> Append(acc.contacts,
                          [platform |-> plat.id, side |-> r[2],
                           velocityY |-> acc.player.velocityY])],
                      Tail(plats))

\* Game.checkCollisions, after the platforms: the grounded flag and the left
\* and right edges of the canvas.
WorldEdges(p, isOnGround) ==
  LET q == [p EXCEPT !.isGrounded = isOnGround]
  IN  IF FLt(q.x, 0) THEN [q EXCEPT !.x = 0, !.velocityX = 0]
      ELSE IF FGt(FAdd(q.x, q.width), gameWidth)
      THEN [q EXCEPT !.x = FSub(gameWidth, q.width), !.velocityX = 0]
      ELSE q

\* Game.playerDeath, the player when lives remain.
Respawned(p) ==
  [p EXCEPT !.x = spawnPoint.x, !.y = spawnPoint.y,
            !.velocityX = 0, !.velocityY = 0]

Keys == [left : BOOLEAN, right : BOOLEAN, jump : BOOLEAN]

\* The levels: one platform of any type, new or, for a breaking one, already
\* triggered and broken by its own update; and the player above it, sunk
\* into it, below it and at the bottom of the canvas.
BrokenPlatform ==
  update(triggerBehavior(Platform("p", 0, W(100), W(100), W(10), "breaking"),
                         Player("luna", 0, W(60), W(60), W(40)))[1],
         Half(1))

LevelPlatforms ==
  {Platform("p", 0, W(100), W(100), W(10), type) : type \in PlatformTypes}
    \cup {BrokenPlatform}

InitGame ==
  /\ \E plat \in LevelPlatforms : platforms = <<plat>>
  /\ \E y \in {W(55), W(62), W(101), W(112), W(596)},
        v \in PlayerVelocities, g \in BOOLEAN :
       localPlayer = [Player("luna", W(10), y, W(60), W(40))
                   EXCEPT !.velocityY = v, !.isGrounded = g]
  /\ playerLives \in {1, 3}
  /\ isRunning = TRUE
  /\ isPaused = FALSE
  /\ animationFrameId = TRUE
  /\ orphanFrames = 0
  /\ frames = 0
  /\ contacts = <<>>
  /\ before = localPlayer

\* Game.gameLoop, run by the browser for a requested frame: the one whose id
\* animationFrameId holds (own) or another one.  updatePhysics,
\* updateEntities, checkCollisions with playerDeath, gameOver and stop inside
\* it, and at the end the request of the next frame.  stop, called from
\* inside the callback, cancels the frame animationFrameId names: the running
\* one, which cancels nothing, or the pending one.
GameLoop(keys, own) ==
  /\ IF own THEN animationFrameId ELSE orphanFrames > 0
  /\ frames < MaxFrames
  /\ LET fallen == updateEntity(localPlayer)
         steered == updateEntities(fallen, keys)
         pass == PlatformPass([player |-> steered, isOnGround |-> FALSE,
                               contacts |-> <<>>], platforms)
         edged == WorldEdges(pass.player, pass.isOnGround)
         died == FGt(edged.y, gameHeight)
         over == died /\ playerLives - 1 <= 0
         stopped == over /\ isRunning
     IN  /\ contacts' = pass.contacts
         /\ playerLives' = IF died THEN playerLives - 1 ELSE playerLives
         /\ localPlayer' = IF died /\ ~over THEN Respawned(edged) ELSE edged
         /\ isRunning' = IF stopped THEN FALSE ELSE isRunning
         /\ isPaused' = IF stopped THEN FALSE ELSE isPaused
         /\ animationFrameId' = TRUE
         /\ orphanFrames' =
              IF own THEN orphanFrames
              ELSE (orphanFrames - 1)
                     + (IF animationFrameId /\ ~stopped THEN 1 ELSE 0)
  /\ before' = localPlayer
  /\ frames' = frames + 1
  /\ UNCHANGED platforms
  /\ GameOnly

\* Game.startGame(), from the start button.
StartGame ==
  /\ ~isRunning
  /\ isRunning' = TRUE
  /\ isPaused' = FALSE
  /\ animationFrameId' = TRUE
  /\ orphanFrames' = orphanFrames + (IF animationFrameId THEN 1 ELSE 0)
  /\ UNCHANGED <<localPlayer, platforms, playerLives, frames, before, contacts>>
  /\ GameOnly

\* Game.stop(), from outside the frame callback.
Stop ==
  /\ isRunning
  /\ animationFrameId' = FALSE
  /\ isRunning' = FALSE
  /\ isPaused' = FALSE
  /\ UNCHANGED <<localPlayer, platforms, playerLives, frames, before, contacts,
                 orphanFrames>>
  /\ GameOnly

\* Game.pause(), from the pause key, a hidden tab or a lost connection.
Pause ==
  /\ isRunning /\ ~isPaused
  /\ animationFrameId' = FALSE
  /\ isPaused' = TRUE
  /\ UNCHANGED <<localPlayer, platforms, playerLives, isRunning, frames, before,
                 contacts, orphanFrames>>
  /\ GameOnly

\* Game.resume()
Resume ==
  /\ isRunning /\ isPaused
  /\ isPaused' = FALSE
  /\ animationFrameId' = TRUE
  /\ orphanFrames' = orphanFrames + (IF animationFrameId THEN 1 ELSE 0)
  /\ UNCHANGED <<localPlayer, platforms, playerLives, isRunning, frames, before,
                 contacts>>
  /\ GameOnly

NextGame ==
  \/ \E keys \in Keys, own \in BOOLEAN : GameLoop(keys, own)
  \/ StartGame
  \/ Stop
  \/ Pause
  \/ Resume

\* The state of a specification while another one runs: not in use.
IdleResolve ==
  /\ rA = Body("a", "player", 0, 0, W(1), W(1))
  /\ rB = rA /\ rA0 = rA /\ rB0 = rA
  /\ rCollision = NoCollision
  /\ rMirror = NoCollision
  /\ rEvents = <<>>
  /\ rPc = "off"

IdleEngine ==
  /\ entities = <<>> /\ spatialHash = <<>> /\ pc = "off" /\ idx = 1
  /\ candidates = <<>> /\ cidx = 1 /\ events = <<>> /\ ticks = 0 /\ calls = 0
  /\ lastCall = NoCall /\ jumpResult = FALSE

IdlePlatform ==
  /\ platform = Platform("p", 0, 0, W(1), W(1), "platform")
  /\ rider = Player("luna", 0, 0, W(1), W(1))
  /\ pSteady = 0 /\ pOp = "off" /\ pDelta = 0 /\ pFrom = platform
  /\ pResult = FALSE /\ pBox = NoBox

IdleGame ==
  /\ localPlayer = Player("luna", 0, 0, W(1), W(1))
  /\ platforms = <<>> /\ playerLives = 0 /\ isRunning = FALSE
  /\ frames = 0 /\ before = localPlayer /\ contacts = <<>>
  /\ isPaused = FALSE /\ animationFrameId = FALSE /\ orphanFrames = 0

InitOfResolve == InitResolve /\ IdleEngine /\ IdlePlatform /\ IdleGame
SpecResolve == InitOfResolve /\ [][NextResolve]_vars

Init == InitEngine /\ IdleResolve /\ IdlePlatform /\ IdleGame
Spec == Init /\ [][NextEngine]_vars

InitOfForce == InitForce /\ IdleResolve /\ IdlePlatform /\ IdleGame
SpecForce == InitOfForce /\ [][NextForce]_vars

InitOfPlatform == InitPlatform /\ IdleResolve /\ IdleEngine /\ IdleGame
SpecPlatform == InitOfPlatform /\ [][NextPlatform]_vars

InitOfGame == InitGame /\ IdleResolve /\ IdleEngine /\ IdlePlatform
SpecGame == InitOfGame /\ [][NextGame]_vars

(***************************************************************************)
(* Claims.                                                                 *)
(***************************************************************************)

\* The entity of the second pass and the candidate about to be handled.
Current == entities[idx]
Cand == entities[candidates[cidx]]
AtCandidate == pc = "candidates" /\ cidx <= Len(candidates)
\* The tick has just returned and no call has been made since.
TickDone == pc = "idle" /\ ticks > 0 /\ calls = 0

\* C1: after resolveCollision(a, b, record) on a dynamic a, for the record
\* checkCollision(a, b) returned, a and b no longer AABB-overlap, unless the
\* one-way override undid the response.
C1_ResolveSeparates ==
  (rPc = "resolved" /\ ~rA0.isStatic /\ ~OneWayUndone(rA, rB, rCollision.side))
    => ~Overlaps(rA, rB)

\* C2: a dynamic entity moving upward (velocityY < 0) that came from below a
\* one-way platform and overlaps it keeps its negative velocityY through the
\* handling of that collision and is not moved out of the platform.
C2_OneWayNeverBlocks ==
  [][ ( /\ AtCandidate
        /\ Cand.type = "platform" /\ Cand.oneWay
        /\ Overlaps(Current, Cand)
        /\ FLt(Current.velocityY, 0)
        /\ FGe(Current.previousY, FAdd(Cand.y, Cand.height)) )
      => ( /\ FLt(entities'[idx].velocityY, 0)
           /\ Overlaps(entities'[idx], Cand) ) ]_vars

\* C3: whenever getPotentialCollisions(e) has just been called in the second
\* pass, its result holds every physics entity whose box overlaps e's box at
\* that moment.
C3_NoFalseNegatives ==
  (pc = "candidates" /\ cidx = 1)
    => \A j \in DOMAIN entities :
         (entities[j].hasPhysics /\ Overlaps(Current, entities[j]))
           => j \in Range(candidates)

\* The collision events of the current tick in which entity a hit entity b.
Hits(a, b) ==
  {k \in DOMAIN events : /\ events[k].name = "collision"
                         /\ events[k].entity = a.id /\ events[k].other = b.id}

\* a was fully above b before the tick.
WasAbove(a, b) == FLe(FAdd(a.previousY, a.height), b.y)

\* C4: when a dynamic, non-bouncy entity A that was fully above a static
\* platform B before the tick collided with B in the tick, the side was bottom
\* and after the tick A.y = B.y - A.height, A.velocityY = 0 and A.isGrounded.
C4_LandingAfterTick ==
  TickDone =>
    \A i \in DOMAIN entities, j \in DOMAIN entities :
      LET a == entities[i]
          b == entities[j]
      IN  ( /\ ~a.isStatic /\ a.bounciness = 0
            /\ b.isStatic /\ b.type = "platform"
            /\ WasAbove(a, b)
            /\ Hits(a, b) # {} )
          => ( /\ \A k \in Hits(a, b) : events[k].side = "bottom"
               /\ a.y = FSub(b.y, a.height)
               /\ a.velocityY = 0
               /\ a.isGrounded )

\* The velocity of an entity on the axis a collision side resolves.
AxisVelocity(e, side) ==
  IF side = "bottom" \/ side = "top" THEN e.velocityY ELSE e.velocityX

\* C5: after resolveCollision of a dynamic a against a non-static b, b's
\* velocity on the resolved axis is (va + vb) * a.mass / (a.mass + b.mass),
\* va and vb being the velocities on that axis when the collision was detected.
C5_MomentumExchange ==
  (rPc = "resolved" /\ ~rA0.isStatic /\ ~rB0.isStatic)
    => AxisVelocity(rB, rCollision.side) =
         FMul(FAdd(AxisVelocity(rA0, rCollision.side),
                   AxisVelocity(rB0, rCollision.side)),
              FDiv(rA0.mass, FAdd(rA0.mass, rB0.mass)))

\* The collision events of the current tick emitted for entity a, and those
\* in which another entity hit a.
HitsBy(a) == {k \in DOMAIN events : events[k].name = "collision" /\ events[k].entity = a.id}
HitsOn(a) == {k \in DOMAIN events : events[k].name = "collision" /\ events[k].other = a.id}

\* C4, as amended: when update handles the pair of a dynamic, non-bouncy A that
\* was fully above static platform B before the tick and overlaps it, the side
\* is bottom and at the end of that handling A.y = B.y - A.height,
\* A.velocityY = 0 and A.isGrounded; these are the values after the tick when
\* that collision is the only one of the tick that involves A and A has no
\* world bounds.
C4_Landing ==
  /\ [][ ( /\ AtCandidate
           /\ Current.id # Cand.id
           /\ Current.bounciness = 0
           /\ Cand.isStatic /\ Cand.type = "platform"
           /\ WasAbove(Current, Cand)
           /\ Overlaps(Current, Cand) )
         => ( /\ events' = Append(events,
                     Event("collision", Current.id, Cand.id, "bottom"))
              /\ entities'[idx].y = FSub(Cand.y, Current.height)
              /\ entities'[idx].velocityY = 0
              /\ entities'[idx].isGrounded ) ]_vars
  /\ [](TickDone =>
         \A i \in DOMAIN entities, j \in DOMAIN entities :
           LET a == entities[i]
               b == entities[j]
           IN  ( /\ ~a.isStatic /\ a.bounciness = 0
                 /\ b.isStatic /\ b.type = "platform"
                 /\ WasAbove(a, b)
                 /\ Hits(a, b) # {}
                 /\ HitsBy(a) = Hits(a, b) /\ Cardinality(Hits(a, b)) = 1
                 /\ HitsOn(a) = {}
                 /\ a.worldBounds = NoBounds )
               => ( /\ a.y = FSub(b.y, a.height)
                    /\ a.velocityY = 0
                    /\ a.isGrounded ))

\* C4 witness: the tick of the spec's scenario is over: A, which was above B
\* (at y = 100) and fell onto it, stands at y = 90, grounded, with velocityY = 0.
C4_Witness ==
  /\ TickDone
  /\ \E i \in DOMAIN entities, j \in DOMAIN entities :
       /\ entities[j].isStatic /\ entities[j].y = W(100)
       /\ WasAbove(entities[i], entities[j])
       /\ events = <<Event("collision", entities[i].id, entities[j].id, "bottom")>>
       /\ entities[i].y = W(90) /\ entities[i].velocityY = 0
       /\ entities[i].isGrounded

\* The number of jump events of entity id among the events emitted since the
\* latest tick began.
Jumps(id) ==
  Cardinality({k \in DOMAIN events : events[k].name = "jump" /\ events[k].entity = id})

\* C10: applyJump returns true exactly on a grounded entity, where it sets
\* velocityY to the force given (the default jump force when none is given),
\* clears isGrounded and emits one jump event; on an entity that is not
\* grounded it returns false, changes nothing and emits nothing; so between
\* two ticks an entity jumps at most once.
C10_JumpOnlyWhenGrounded ==
  /\ [][ (calls' = calls + 1 /\ lastCall'.op = "applyJump")
         => LET i == lastCall'.entity
                force == lastCall'.a1
                e == entities[i]
            IN  IF e.hasPhysics /\ e.isGrounded
                THEN /\ jumpResult'
                     /\ entities' = [entities EXCEPT ![i] =
                          [e EXCEPT !.velocityY = IF force = Undefined
                                                  THEN W(0 - 11) ELSE force,
                                    !.isGrounded = FALSE]]
                     /\ events' = Append(events, Event("jump", e.id, "", "none"))
                ELSE /\ ~jumpResult'
                     /\ entities' = entities
                     /\ events' = events ]_vars
  /\ [](\A i \in DOMAIN entities : Jumps(entities[i].id) <= 1)

\* C10 witness: an entity that jumped since the latest tick was asked to jump
\* again and the call returned false.
C10_Witness ==
  /\ pc = "idle" /\ calls = 2
  /\ lastCall.op = "applyJump"
  /\ ~jumpResult
  /\ Jumps(entities[lastCall.entity].id) = 1

\* A breaking platform in one of its three states.
IsBreaking(p, state) == p.type = "breaking" /\ p.behaviors.breakingState = state

\* C6: a breaking platform is solid exactly while stable or breaking, never
\* while broken, and no collision check of a frame reports a collision of
\* the player with a platform that is broken.
C6_BrokenNeverCollides ==
  \A k \in DOMAIN platforms :
    LET p == platforms[k]
    IN  p.type = "breaking" =>
          /\ p.solid <=> p.behaviors.breakingState \in {"stable", "breaking"}
          /\ p.behaviors.breakingState = "broken" =>
               \A i \in DOMAIN contacts : contacts[i].platform # p.id

\* A breaking platform as new: stable, solid, both timers at zero, not
\* triggered.
Fresh(p) ==
  /\ IsBreaking(p, "stable")
  /\ p.solid
  /\ p.behaviors.breakingTimer = 0
  /\ p.behaviors.respawnTimer = 0
  /\ ~p.behaviors.triggered

\* C7: a broken platform is not solid and its respawn timer is below the
\* respawn duration; no call changes it but update with deltaTime > 0, which
\* adds deltaTime to the respawn timer and, at the first update that brings
\* the timer to respawnDuration and not before, makes the platform stable,
\* solid, with both timers at zero and not triggered; a stable platform is
\* always in that state, so that triggerBehavior starts the breaking again.
C7_Respawn ==
  /\ [][ IsBreaking(platform, "broken") =>
           IF pOp' = "update" /\ platform' # platform
           THEN LET respawnTimer ==
                      FAdd(platform.behaviors.respawnTimer, pDelta')
                IN  /\ FGt(pDelta', 0)
                    /\ IF FGe(respawnTimer, platform.behaviors.respawnDuration)
                       THEN Fresh(platform')
                       ELSE /\ IsBreaking(platform', "broken")
                            /\ platform'.behaviors.respawnTimer = respawnTimer
                            /\ FGt(respawnTimer, platform.behaviors.respawnTimer)
           ELSE /\ platform' = platform
                /\ pOp' = "update" => pDelta' = 0 ]_vars
  /\ [](IsBreaking(platform, "broken") =>
          /\ ~platform.solid
          /\ FLt(platform.behaviors.respawnTimer,
                 platform.behaviors.respawnDuration))
  /\ [](IsBreaking(platform, "stable") =>
          /\ Fresh(platform)
          /\ triggerBehavior(platform, rider)[3]
          /\ IsBreaking(triggerBehavior(platform, rider)[1], "breaking"))

\* C7 witness: the latest call was the update that made a broken platform
\* stable again, after a respawn timer that had been running.
C7_Witness ==
  /\ pOp = "update"
  /\ IsBreaking(pFrom, "broken")
  /\ FGt(pFrom.behaviors.respawnTimer, 0)
  /\ FLt(pFrom.behaviors.respawnTimer, pFrom.behaviors.respawnDuration)
  /\ Fresh(platform)

\* The platform of the level with the given id.
PlatformOf(id) == CHOOSE p \in Range(platforms) : p.id = id

\* C8: when the player, falling with velocityY = v > 0, collides from above
\* with a bouncy platform of bounce factor f, then after the frame's collision
\* handling its velocityY = -|v| * f and it is not grounded; with v <= 0 the
\* platform's compression stays as it was.
C8_BouncyPlatform ==
  \A i \in DOMAIN contacts :
    LET c == contacts[i]
        p == PlatformOf(c.platform)
    IN  p.type = "bouncy" =>
          /\ ( /\ FGt(c.velocityY, 0)
               /\ FLe(FAdd(before.y, before.height), p.y) )
             => /\ localPlayer.velocityY =
                     FMul(FNeg(FAbs(c.velocityY)), p.behaviors.bounciness)
                /\ ~localPlayer.isGrounded
          /\ FLe(c.velocityY, 0) => p.behaviors.compressionState = 0

\* C9: a moving platform that starts at x = 0 with moveSpeed 1 and direction
\* +1 is at x = 100 after 100 updates of one second each.
C9_MovingCycle ==
  ( /\ platform.type = "moving"
    /\ platform.behaviors.startPosition.x = 0
    /\ pSteady = 100 )
  => platform.x = W(100)

\* C11 (as claimed): a call of applyJump, applyForce or applyImpulse on a
\* static entity or on an entity without a physics component leaves the
\* entity's velocity and isGrounded flag as they were and emits no event.
ForceCall == calls' = calls + 1
Target == entities[lastCall'.entity]
TargetAfter == entities'[lastCall'.entity]
C11_ForceApiNoOp ==
  [][ (ForceCall /\ (Target.isStatic \/ ~Target.hasPhysics)) =>
        /\ TargetAfter.velocityX = Target.velocityX
        /\ TargetAfter.velocityY = Target.velocityY
        /\ TargetAfter.isGrounded = Target.isGrounded
        /\ events' = events ]_vars

\* The entities with declared bounds that the claim covers: dynamic, with a
\* size that fits inside the bounds.
Bounded ==
  {i \in DOMAIN entities :
     /\ entities[i].hasPhysics /\ ~entities[i].isStatic
     /\ entities[i].worldBounds # NoBounds
     /\ entities[i].width <= entities[i].worldBounds.maxX - entities[i].worldBounds.minX
     /\ entities[i].height <= entities[i].worldBounds.maxY - entities[i].worldBounds.minY}
Inside(e) ==
  /\ e.worldBounds.minX <= e.x /\ e.x + e.width <= e.worldBounds.maxX
  /\ e.worldBounds.minY <= e.y /\ e.y + e.height <= e.worldBounds.maxY
BoundaryStep == pc = "candidates" /\ pc' = "secondPass"

\* C12 (as claimed): at the end of every tick every dynamic entity with
\* declared worldBounds and a size that fits lies inside the bounds, and the
\* velocity component of every axis on which the tick clamped it is zero.
C12_WorldBounds ==
  /\ [](TickDone => \A i \in Bounded : Inside(entities[i]))
  /\ [][ BoundaryStep =>
           /\ entities'[idx].x # entities[idx].x => entities'[idx].velocityX = 0
           /\ entities'[idx].y # entities[idx].y => entities'[idx].velocityY = 0 ]_vars

Mirror(side) ==
  CASE side = "bottom" -> "top"
    [] side = "top" -> "bottom"
    [] side = "left" -> "right"
    [] side = "right" -> "left"
    [] OTHER -> side

\* C13 (as claimed): checkCollision(a, b) reports a collision exactly when
\* checkCollision(b, a) does, and then the side reported for a is the mirror
\* of the side reported for b.
C13_DetectSymmetric ==
  rPc = "mirrored" =>
    /\ (rCollision = NoCollision) <=> (rMirror = NoCollision)
    /\ rCollision # NoCollision => rMirror.side = Mirror(rCollision.side)

FMax(x, y) == IF IsNum(x) /\ IsNum(y) THEN (IF x > y THEN x ELSE y) ELSE NaN

\* The reference classification of C14 for an overlapping pair.
ReferenceSide(a, b) ==
  LET overlapX == FSub(FMin(FAdd(a.x, a.width), FAdd(b.x, b.width)), FMax(a.x, b.x))
      overlapY == FSub(FMin(FAdd(a.y, a.height), FAdd(b.y, b.height)), FMax(a.y, b.y))
  IN  IF FLe(FAdd(a.previousY, a.height), b.y) THEN "bottom"
      ELSE IF FGe(a.previousY, FAdd(b.y, b.height)) THEN "top"
      ELSE IF FLe(FAdd(a.previousX, a.width), b.x) THEN "right"
      ELSE IF FGe(a.previousX, FAdd(b.x, b.width)) THEN "left"
      ELSE IF FLt(overlapX, overlapY)
           THEN (IF FGe(a.velocityX, 0) THEN "right" ELSE "left")
           ELSE (IF FGe(a.velocityY, 0) THEN "bottom" ELSE "top")

\* C14 (as claimed): for every overlapping pair the side checkCollision reports
\* is the reference side: the first matching previous-position rule, else
\* left/right when overlapX < overlapY (right when velocityX >= 0) and
\* top/bottom otherwise (bottom when velocityY >= 0).
C14_SideIsReference ==
  (rPc = "checked" /\ rCollision # NoCollision)
    => rCollision.side = ReferenceSide(rA0, rB0)

\* C15 (as claimed): after resolveCollision on a dynamic a whose velocity on
\* the resolved axis was v, that component is -v * a.bounciness when
\* a.bounciness > 0 and 0 when a.bounciness = 0.
C15_Bounce ==
  (rPc = "resolved" /\ ~rA0.isStatic)
    => AxisVelocity(rA, rCollision.side) =
         IF FGt(rA0.bounciness, 0)
         THEN FMul(FNeg(AxisVelocity(rA0, rCollision.side)), rA0.bounciness)
         ELSE 0

EntityOf(id) == CHOOSE e \in Range(entities) : e.id = id
\* A collision event of a one-way platform that the one-way rule does not
\* honour: the side is not bottom (a bottom collision never moves upward).
NotHonoured(ev) ==
  /\ EntityOf(ev.other).type = "platform" /\ EntityOf(ev.other).oneWay
  /\ ev.side # "bottom"
\* The collidingWith entries of the honoured collisions of entity id, in the
\* order of the tick's collision events.
HonouredEntries(id) ==
  LET Kept(ev) == ev.name = "collision" /\ ev.entity = id /\ ~NotHonoured(ev)
      kept == SelectSeq(events, Kept)
  IN  [k \in DOMAIN kept |->
         [id |-> kept[k].other, type |-> EntityOf(kept[k].other).type,
          side |-> kept[k].side]]

\* C16 (as claimed): at the end of a tick the collidingWith of every dynamic
\* entity holds no entry for a one-way platform whose collision was not
\* honoured and holds, in order, the entries of all its other collisions.
C16_OneWayBookkeeping ==
  TickDone =>
    \A i \in DOMAIN entities :
      (entities[i].hasPhysics /\ ~entities[i].isStatic)
        => entities[i].collidingWith = HonouredEntries(entities[i].id)

\* The frame's collision handling landed the player on platform id from above.
LandedOn(id, cs) ==
  \E i \in DOMAIN cs :
    cs[i].platform = id /\ cs[i].side = "top" /\ FGt(cs[i].velocityY, 0)

FellNow ==
  \E k \in DOMAIN events' :
    /\ k > Len(events)
    /\ events'[k].name = "fellOffWorld" /\ events'[k].entity = Current.id
\* The current entity is past the pit boundary of its bounds: its bottom is
\* below maxY and maxY is above 1000.
PastPit ==
  /\ Current.worldBounds # NoBounds
  /\ Current.worldBounds.maxY > W(1000)
  /\ Current.y + Current.height > Current.worldBounds.maxY

\* C18 (as claimed): the boundary check of a tick emits fellOffWorld for an
\* entity exactly when the entity's bottom is past maxY and maxY is above
\* 1000; nothing else emits the event.
C18_FellOffWorld ==
  [][ /\ BoundaryStep => (FellNow <=> PastPit)
      /\ ~BoundaryStep =>
           \A k \in DOMAIN events' :
             events'[k].name = "fellOffWorld" =>
               k \in DOMAIN events /\ events[k] = events'[k] ]_vars

\* C19 (as claimed): the velocity resolveCollision assigns to a non-static b
\* is a defined number, whatever the masses: a missing mass or a combined
\* mass of zero is replaced by the default mass 1.
C19_MomentumDefined ==
  (rPc = "resolved" /\ ~rA0.isStatic /\ ~rB0.isStatic)
    => IsNum(rB.velocityX) /\ IsNum(rB.velocityY)

\* update has run its first pass in this step.
FirstPass == pc = "idle" /\ pc' = "secondPass"
\* The timeScale of the largest deltaTime, in units.
MaxScale == FDiv(maxDeltaTime, FrameMs)

\* C20 (as claimed): the deltaTime a tick uses is at most the configured
\* maximum, so one tick moves no entity further, on either axis, than its
\* velocity times the time scale of the maximum deltaTime.
C20_DeltaTimeClamp ==
  [][ FirstPass =>
        \A i \in DOMAIN entities :
          (entities[i].hasPhysics /\ IsNum(entities'[i].x) /\ IsNum(entities'[i].y))
            => /\ Abs(entities'[i].x - entities[i].x) * Units
                    <= Abs(entities'[i].velocityX) * MaxScale
               /\ Abs(entities'[i].y - entities[i].y) * Units
                    <= Abs(entities'[i].velocityY) * MaxScale ]_vars

\* C21: resolveCollision with a static first entity changes neither entity,
\* and the candidate handling of a tick skips a candidate without a physics
\* component: no entity changes and no event is emitted.
C21_SkippedPairs ==
  /\ (rPc = "resolved" /\ rA0.isStatic) => (rA = rA0 /\ rB = rB0)
  /\ (rPc = "handled" /\ ~rB0.hasPhysics)
       => (rA = rA0 /\ rB = rB0 /\ rEvents = <<>>)

\* C21 witnesses: resolveCollision has returned for an overlapping pair whose
\* first entity is static and whose second is a moving body; and the candidate
\* handling has returned for a body that overlaps scenery.
C21_Witness ==
  \/ /\ rPc = "resolved" /\ rA0.isStatic /\ ~rB0.isStatic
     /\ rB0.velocityY # 0 /\ rA0.velocityY # 0
  \/ /\ rPc = "handled" /\ ~rB0.hasPhysics /\ Overlaps(rA0, rB0)
     /\ rA0.velocityY # 0

\* getPotentialCollisions has just returned for the current entity.
Queried == pc = "candidates" /\ cidx = 1
NoDuplicates(seq) == \A m, n \in DOMAIN seq : seq[m] = seq[n] => m = n
\* The number of cells of the spatial hash that hold both i and j.
SharedCells(i, j) ==
  Cardinality({k \in DOMAIN spatialHash :
                 i \in Range(spatialHash[k]) /\ j \in Range(spatialHash[k])})

\* C22 (as claimed): the array getPotentialCollisions returns for an entity
\* holds each candidate at most once and never holds the entity itself.
C22_QueryExcludesSelf ==
  Queried => (NoDuplicates(candidates) /\ idx \notin Range(candidates))

\* C22, as amended: the array getPotentialCollisions returns holds each
\* candidate at most once; it may hold the entity itself, and update skips
\* that candidate: handling it changes no entity and emits nothing, and no
\* collision event ever pairs an entity with itself.
C22_Query ==
  /\ [](Queried => NoDuplicates(candidates))
  /\ [][ (AtCandidate /\ candidates[cidx] = idx)
           => (entities' = entities /\ events' = events) ]_vars
  /\ [](\A k \in DOMAIN events :
          events[k].name = "collision" => events[k].entity # events[k].other)

\* C22 witness: the query has returned the entity itself and a candidate that
\* shares two cells with it.
C22_Witness ==
  /\ Queried
  /\ idx \in Range(candidates)
  /\ SharedCells(idx, idx) >= 2
  /\ \E j \in Range(candidates) : j # idx /\ SharedCells(idx, j) >= 2

\* C23 (as claimed): when adjustPlayerPosition carries the rider after an
\* update of the platform, the rider is translated by exactly the displacement
\* the platform made in that update, so the rider's offset from the platform
\* is as before the update.
C23_CarryAlong ==
  [][ (pOp = "update" /\ pOp' = "adjustPlayerPosition")
        => /\ FSub(rider'.x, rider.x) = FSub(platform.x, pFrom.x)
           /\ FSub(rider'.y, rider.y) = FSub(platform.y, pFrom.y) ]_vars

Compression(p) == p.behaviors.compressionState

\* C24: on a bouncy platform a triggering bounce sets the compression to 1;
\* an update with deltaTime > 0 lowers a positive compression by
\* recoverSpeed * deltaTime, to 0 at the least, so that finitely many such
\* updates bring it back to 0; no other call changes it; and it lies in
\* [0, 1] in every state.
C24_Compression ==
  /\ [](platform.type = "bouncy" =>
          (FGe(Compression(platform), 0) /\ FLe(Compression(platform), W(1))))
  /\ [][ platform.type = "bouncy" =>
           CASE pOp' = "triggerBehavior" /\ pResult' ->
                  Compression(platform') = W(1)
             [] pOp' = "update" /\ FGt(pDelta', 0) ->
                  LET lowered == FSub(Compression(platform),
                                      FMul(platform.behaviors.recoverSpeed, pDelta'))
                  IN  /\ Compression(platform') =
                           IF FGt(lowered, 0) THEN lowered ELSE 0
                      /\ FGt(Compression(platform), 0) =>
                           FLt(Compression(platform'), Compression(platform))
             [] OTHER -> Compression(platform') = Compression(platform) ]_vars

\* C24 witness: the latest update lowered the compression of a bouncy
\* platform to a value strictly between 0 and what it was.
C24_Witness ==
  /\ platform.type = "bouncy"
  /\ pOp = "update"
  /\ FGt(Compression(platform), 0)
  /\ FLt(Compression(platform), Compression(pFrom))

\* Entity e has an entry for a one-way platform that the one-way rule undid.
HasReverted(e) ==
  \E k \in DOMAIN e.collidingWith :
    /\ EntityOf(e.collidingWith[k].id).oneWay
    /\ e.collidingWith[k].side # "bottom"

\* C25: at the end of every tick, for every physics entity, isColliding is
\* true iff collidingWith is not empty, every id in collidingWith is the id
\* of an entity of the list, and every entry is that of a collision event of
\* this tick (none survives from an earlier tick).
C25_CollidingFlags ==
  TickDone =>
    \A i \in DOMAIN entities :
      entities[i].hasPhysics =>
        /\ entities[i].isColliding <=> entities[i].collidingWith # <<>>
        /\ \A k \in DOMAIN entities[i].collidingWith :
             LET entry == entities[i].collidingWith[k]
             IN  /\ \E j \in DOMAIN entities : entities[j].id = entry.id
                 /\ \E n \in DOMAIN events :
                      /\ events[n].name = "collision"
                      /\ events[n].entity = entities[i].id
                      /\ events[n].other = entry.id
                      /\ events[n].side = entry.side

\* C25 witness: the second tick has ended with an entity that collides and
\* has an undone one-way collision among its entries.
C25_Witness ==
  /\ TickDone
  /\ ticks = 2
  /\ \E i \in DOMAIN entities :
       /\ entities[i].isColliding
       /\ HasReverted(entities[i])

\* The boundary check of this step clamped the current entity at the floor.
FloorClamp ==
  /\ Current.worldBounds # NoBounds
  /\ entities'[idx].y # Current.y
  /\ entities'[idx].y = FSub(Current.worldBounds.maxY, Current.height)
HasBottom(e) ==
  \E k \in DOMAIN e.collidingWith : e.collidingWith[k].side = "bottom"

\* C26 (as claimed): when the second pass is done with a dynamic entity, and
\* so at the end of the tick, the entity's isGrounded is true iff its
\* collidingWith holds an entry with side bottom or the boundary check
\* clamped it at the floor.
C26_GroundedIffBottom ==
  [][ BoundaryStep =>
        (entities'[idx].isGrounded <=> (HasBottom(entities'[idx]) \/ FloorClamp))
    ]_vars

\* The entity with id b is listed in a's collidingWith.
Lists(a, b) ==
  \E k \in DOMAIN a.collidingWith : a.collidingWith[k].id = b.id
IsOneWay(e) == e.type = "platform" /\ e.oneWay

\* C27 (as claimed): at the end of every tick no dynamic entity overlaps a
\* static entity that is not one-way and is listed in its collidingWith.
C27_NoOverlapWithListed ==
  TickDone =>
    \A i \in DOMAIN entities, j \in DOMAIN entities :
      ( /\ entities[i].hasPhysics /\ ~entities[i].isStatic
        /\ entities[j].hasPhysics /\ entities[j].isStatic
        /\ ~IsOneWay(entities[j])
        /\ Lists(entities[i], entities[j]) )
      => ~Overlaps(entities[i], entities[j])

\* C28 (as claimed): no step of the engine changes the position or the
\* velocity of an entity whose physics component has isStatic = true.
C28_StaticNeverMoves ==
  [][ \A i \in DOMAIN entities :
        (entities[i].hasPhysics /\ entities[i].isStatic)
          => /\ entities'[i].x = entities[i].x
             /\ entities'[i].y = entities[i].y
             /\ entities'[i].velocityX = entities[i].velocityX
             /\ entities'[i].velocityY = entities[i].velocityY ]_vars

\* C29 (as claimed): at the end of every tick every physics entity with
\* hasGravity has velocityY <= terminalVelocity, whatever calls of the force
\* API came before the tick and whatever momentum it was given during it.
C29_TerminalVelocity ==
  TickDone =>
    \A i \in DOMAIN entities :
      (entities[i].hasPhysics /\ entities[i].hasGravity)
        => FLe(entities[i].velocityY, terminalVelocity)

\* C30 (as claimed): after every complete event handler or frame callback of
\* the Game a frame is requested (animationFrameId not null) only if the game
\* is running and not paused, and isPaused implies isRunning.
C30_LoopScheduling ==
  /\ animationFrameId => (isRunning /\ ~isPaused)
  /\ isPaused => isRunning

====
